---------------------------- MODULE Spec2Model ----------------------------
(***************************************************************************)
(* Model of the geschenk25 API: the SecretSantaMatcher class               *)
(* (src/src/utils/secretSantaMatcher.ts) as a state machine, and the       *)
(* POST /:id/assign handler (src/src/routes/groups.ts) with its database   *)
(* steps.  Arrays are 0-based as in the source: an array of length n is a  *)
(* function on 0..n-1, except adjacency lists and identifier lists, which  *)
(* are sequences (element k of the source is element k+1 here).            *)
(***************************************************************************)
EXTENDS Integers, Sequences, FiniteSets, TLC

\* Bounds of the model.
MaxN == 3
MaxEdges == 3
MaxUsers == 3
MaxExclusions == 2
MaxGroup == 10
MaxPhaseN == 3
MaxPhaseEdges == 5
MaxCalls == 2

VARIABLES
  \* ---- one SecretSantaMatcher instance
  givers,                  \* this.givers
  receivers,               \* this.receivers
  participantConnections,  \* this.participantConnections
  secretSantaPair,         \* this.secretSantaPair
  searchDistance,          \* this.searchDistance
  mpc,                     \* where the instance's caller is
  participant,             \* loop variable of generateSecretSantaPairs
  pairs,                   \* the Map returned by generateSecretSantaPairs
  threw,                   \* the last addSecretSantaPairing call threw
  argsInRange,             \* the indices passed to that call were in range
  lastCall,                \* <<giver, receiver>> of the last recorded call
  phasePair,               \* secretSantaPair at the last initializeSearchLayer call
  phases,                  \* initializeSearchLayer calls of the current solve (up to G + 2)
  calls,                   \* generateSecretSantaPairs calls so far
  \* ---- the database
  groups,                  \* groups: id -> created_by
  group_members,           \* rows <<group_id, user_id>>
  exclusions,              \* rows <<group_id, giver_id, excluded_user_id>>
  assignments,             \* rows <<group_id, giver_id, receiver_id>>
  \* ---- POST /:id/assign requests in flight
  slots,                   \* the requests of the scenario
  req,                     \* per request: its position and local variables
  notification,            \* per request: its sendAssignmentNotification promise
  prior,                   \* the assignments stored before the requests
  \* ---- the exclusions table with its ids, and the exclusion requests
  exclusionIds,            \* rows <<id, group_id, giver_id, excluded_user_id>>
  nextExclusionId,         \* the serial of the id column
  exclusionsUnique,        \* the table has UNIQUE(group_id, giver_id, excluded_user_id)
  xreq,                    \* per exclusion request: position and local variables
  \* ---- one request passing through the router of /api/groups
  hreq,
  \* ---- the invitations table
  invitations              \* rows <<group_id, invitee_id, status>>

matcherVars == <<givers, receivers, participantConnections, secretSantaPair,
                 searchDistance, mpc, participant, pairs, threw,
                 argsInRange, lastCall, phasePair, phases, calls>>

dbVars == <<groups, group_members, exclusions, assignments>>

reqVars == <<slots, req, notification, prior>>

exclVars == <<exclusionIds, nextExclusionId, exclusionsUnique, xreq, hreq,
              invitations>>

vars == <<matcherVars, dbVars, reqVars, exclVars>>

-----------------------------------------------------------------------------
\* Number.POSITIVE_INFINITY, and x + 1 on such distances (Infinity + 1 is
\* Infinity in the source's arithmetic).
Infinity == 1000000

Plus1(d) == IF d = Infinity THEN Infinity ELSE d + 1

EmptyMap == [k \in {} |-> 0]

MapSize(m) == Cardinality(DOMAIN m)

MapValues(m) == {m[k] : k \in DOMAIN m}

\* The element of a one-element set.
The(S) == CHOOSE r \in S : TRUE

\* Map.prototype.set
MapSet(m, k, v) == [x \in (DOMAIN m) \cup {k} |-> IF x = k THEN v ELSE m[x]]

\* new Array(n).fill(v)
ArrayFill(n, v) == [i \in 0..(n - 1) |-> v]

\* array.length for an array modelled as a function on 0..n-1
ArrayLen(a) == Cardinality(DOMAIN a)

\* The exclusions table for the rows X, ids in the order of insertion by
\* giver and excluded user.
ExclusionTable(X) ==
  {<<Cardinality({y \in X : y[2] < x[2] \/ (y[2] = x[2] /\ y[3] < x[3])}) + 1,
     x[1], x[2], x[3]>> : x \in X}

\* No exclusion request in flight.
NoExclusionRequests ==
  /\ exclusionIds = ExclusionTable(exclusions)
  /\ nextExclusionId = Cardinality(exclusions) + 1
  /\ exclusionsUnique = TRUE
  /\ xreq = EmptyMap
  /\ hreq = [pc |-> "idle", method |-> "", path |-> "", header |-> "absent",
             layer |-> 0, inline |-> FALSE, userId |-> 0, ran |-> FALSE,
             read |-> FALSE, wrote |-> FALSE, status |-> 0]
  /\ invitations = {}

-----------------------------------------------------------------------------
\* constructor(givers, receivers)
NewMatcher(gs, rs) ==
  LET participantsCount == Len(gs) + Len(rs)
  IN [givers |-> gs,
      receivers |-> rs,
      participantConnections |-> ArrayFill(participantsCount, <<>>),
      secretSantaPair |-> ArrayFill(participantsCount, -1),
      searchDistance |-> ArrayFill(participantsCount + 1, Infinity)]

\* A variant of OutOfBounds with an off-by-one upper bound on the receiver.
OutOfBoundsOffByOne(gs, rs, giver, receiver) ==
  \/ giver < 0
  \/ giver >= Len(gs)
  \/ receiver < 0
  \/ receiver > Len(rs)

\* The bounds check of addSecretSantaPairing: TRUE when the call throws.
OutOfBounds(gs, rs, giver, receiver) ==
  \/ giver < 0
  \/ giver >= Len(gs)
  \/ receiver < 0
  \/ receiver >= Len(rs)

\* A variant of PushPairing that does not register an edge twice.
PushPairingOnce(conn, gs, giver, receiver) ==
  LET receiverIndex == Len(gs) + receiver
  IN IF \E k \in 1..Len(conn[giver]) : conn[giver][k] = receiverIndex
     THEN conn
     ELSE [conn EXCEPT ![giver] = Append(@, receiverIndex)]

\* The push of addSecretSantaPairing (indices in bounds).
PushPairing(conn, gs, giver, receiver) ==
  LET receiverIndex == Len(gs) + receiver
  IN [conn EXCEPT ![giver] = Append(@, receiverIndex)]

\* A variant of Swap that copies edges[j] to edges[i] without the exchange.
SwapOverwrite(edges, i, j) == [edges EXCEPT ![i + 1] = edges[j + 1]]

\* [edges[i], edges[j]] = [edges[j], edges[i]] (0-based i, j)
Swap(edges, i, j) ==
  [edges EXCEPT ![i + 1] = edges[j + 1], ![j + 1] = edges[i + 1]]

\* A variant of FisherYates that leaves the list in registration order.
FisherYatesNoSwap(edges, i) == {edges}

\* The Fisher-Yates loop of shuffleParticipantConnections on one list, from
\* index i down to 1: every outcome of the draws j in 0..i.
RECURSIVE FisherYates(_, _)
FisherYates(edges, i) ==
  IF i <= 0 THEN {edges}
  ELSE UNION {FisherYates(Swap(edges, i, j), i - 1) : j \in 0..i}

\* The same loop with the draws given: draws[i] is the j drawn at index i.
RECURSIVE FisherYatesWith(_, _, _)
FisherYatesWith(edges, i, draws) ==
  IF i <= 0 THEN edges
  ELSE FisherYatesWith(Swap(edges, i, draws[i]), i - 1, draws)

\* shuffleParticipantConnections: the forEach over all lists, from list p on.
RECURSIVE shuffleParticipantConnections(_, _)
shuffleParticipantConnections(conn, p) ==
  IF p >= ArrayLen(conn) THEN {conn}
  ELSE UNION {shuffleParticipantConnections([conn EXCEPT ![p] = s], p + 1) :
                s \in FisherYates(conn[p], Len(conn[p]) - 1)}

\* A variant of PairedIndex that takes every receiver for unmatched.
PairedIndexAlwaysSentinel(pair, v, participantsCount) == participantsCount

\* The sentinel substitution made in both searches.
PairedIndex(pair, v, participantsCount) ==
  IF pair[v] = -1 THEN participantsCount ELSE pair[v]

\* A variant of VisitConnections that never enqueues the paired giver.
RECURSIVE VisitConnectionsNoEnqueue(_, _, _, _, _, _)
VisitConnectionsNoEnqueue(edges, k, currentParticipant, pair, dist, queue) ==
  IF k > Len(edges) THEN [dist |-> dist, queue |-> queue]
  ELSE
    LET participantsCount == ArrayLen(pair)
        pairedIndex == IF pair[edges[k]] = -1 THEN participantsCount
                       ELSE pair[edges[k]]
        next == IF dist[pairedIndex] = Infinity
                THEN [dist EXCEPT ![pairedIndex] = dist[currentParticipant] + 1]
                ELSE dist
    IN The({VisitConnectionsNoEnqueue(edges, k + 1, currentParticipant, pair,
                                      n, queue) : n \in {next}})

\* The forEach over currentParticipant's connections in initializeSearchLayer,
\* from element k on.  (The({e(n) : n \in {x}}) is e(x) with x computed once.)
RECURSIVE VisitConnections(_, _, _, _, _, _)
VisitConnections(edges, k, currentParticipant, pair, dist, queue) ==
  IF k > Len(edges) THEN [dist |-> dist, queue |-> queue]
  ELSE
    LET participantsCount == ArrayLen(pair)
        pairedIndex == PairedIndex(pair, edges[k], participantsCount)
        next ==
          IF dist[pairedIndex] = Infinity
          THEN [dist |-> [dist EXCEPT ![pairedIndex] =
                                        Plus1(dist[currentParticipant])],
                queue |-> IF pairedIndex # participantsCount
                          THEN Append(queue, pairedIndex) ELSE queue]
          ELSE [dist |-> dist, queue |-> queue]
    IN The({VisitConnections(edges, k + 1, currentParticipant, pair,
                             n.dist, n.queue) : n \in {next}})

\* The while (queue.length > 0) loop of initializeSearchLayer.
RECURSIVE SearchLoop(_, _, _, _)
SearchLoop(conn, pair, dist, queue) ==
  IF queue = <<>> THEN dist
  ELSE
    LET currentParticipant == Head(queue)
        rest == Tail(queue)
    IN IF currentParticipant # -1 /\ currentParticipant < ArrayLen(conn)
       THEN The({SearchLoop(conn, pair, r.dist, r.queue) :
                   r \in {VisitConnections(conn[currentParticipant], 1,
                                           currentParticipant, pair, dist, rest)}})
       ELSE SearchLoop(conn, pair, dist, rest)

\* A variant of UnmatchedGivers that starts the search from the first
\* unmatched giver only.
RECURSIVE UnmatchedGiversFirstOnly(_, _, _)
UnmatchedGiversFirstOnly(pair, p, numberOfGivers) ==
  IF p >= numberOfGivers THEN <<>>
  ELSE IF pair[p] = -1 THEN <<p>>
       ELSE UnmatchedGiversFirstOnly(pair, p + 1, numberOfGivers)

\* The unmatched givers in index order: the initial queue.
RECURSIVE UnmatchedGivers(_, _, _)
UnmatchedGivers(pair, p, numberOfGivers) ==
  IF p >= numberOfGivers THEN <<>>
  ELSE IF pair[p] = -1
       THEN <<p>> \o UnmatchedGivers(pair, p + 1, numberOfGivers)
       ELSE UnmatchedGivers(pair, p + 1, numberOfGivers)

\* initializeSearchLayer: the searchDistance array it leaves behind; it
\* returns TRUE iff the sentinel's entry is not Infinity (LayerFound).
initializeSearchLayer(conn, pair, numberOfGivers) ==
  LET participantsCount == ArrayLen(conn)
      queue == UnmatchedGivers(pair, 0, numberOfGivers)
      dist0 == [v \in 0..participantsCount |->
                  IF v < numberOfGivers /\ pair[v] = -1 THEN 0 ELSE Infinity]
  IN SearchLoop(conn, pair, dist0, queue)

\* A variant of LayerFound that always reports a path.
LayerFoundAlways(dist) == TRUE

\* A variant of LayerFound that only accepts a free receiver next to an
\* unmatched giver.
LayerFoundDirectOnly(dist) == dist[ArrayLen(dist) - 1] = 1

\* return this.searchDistance[participantsCount] !== Infinity
LayerFound(dist) == dist[ArrayLen(dist) - 1] # Infinity

\* A variant of NextLayer that compares with the participant's own layer.
NextLayerSameLayer(dist, pairedIndex, p) == dist[pairedIndex] = dist[p]

\* The layering test of attemptAssignment.
NextLayer(dist, pairedIndex, p) == dist[pairedIndex] = Plus1(dist[p])

\* A variant of SetPair that records the pairing on the receiver's side only.
SetPairReceiverOnly(pair, potentialPair, p) == [pair EXCEPT ![potentialPair] = p]

\* A variant of SetPair that records the pairing on the giver's side only.
SetPairGiverOnly(pair, potentialPair, p) == [pair EXCEPT ![p] = potentialPair]

\* The two writes of attemptAssignment on success.
SetPair(pair, potentialPair, p) ==
  [pair EXCEPT ![potentialPair] = p, ![p] = potentialPair]

RECURSIVE attemptAssignment(_, _, _, _)
RECURSIVE SomeConnection(_, _, _, _, _)

\* A variant of attemptAssignment that writes the pair with the first
\* connection before it knows whether that receiver is free.
attemptAssignmentWriteFirst(conn, pair, dist, p) ==
  IF p = -1 \/ p = ArrayLen(conn) THEN [ok |-> TRUE, pair |-> pair]
  ELSE IF conn[p] = <<>> THEN [ok |-> FALSE, pair |-> pair]
  ELSE [ok |-> pair[conn[p][1]] = -1, pair |-> SetPair(pair, conn[p][1], p)]

\* attemptAssignment(participant): [ok, pair] with the match array it leaves.
\* SomeConnection is the .some() over the participant's list from element k.
attemptAssignment(conn, pair, dist, p) ==
  IF p = -1 \/ p = ArrayLen(conn) THEN [ok |-> TRUE, pair |-> pair]
  ELSE SomeConnection(conn, pair, dist, p, 1)

SomeConnection(conn, pair, dist, p, k) ==
  IF k > Len(conn[p]) THEN [ok |-> FALSE, pair |-> pair]
  ELSE
    LET potentialPair == conn[p][k]
        pairedIndex == PairedIndex(pair, potentialPair, ArrayLen(conn))
    IN IF NextLayer(dist, pairedIndex, p)
       THEN The({IF sub.ok
                 THEN [ok |-> TRUE, pair |-> SetPair(sub.pair, potentialPair, p)]
                 ELSE SomeConnection(conn, sub.pair, dist, p, k + 1) :
                   sub \in {attemptAssignment(conn, pair, dist, pairedIndex)}})
       ELSE SomeConnection(conn, pair, dist, p, k + 1)

\* A variant of AttemptIfUnmatched that calls attemptAssignment for the
\* lowest unmatched giver only, so that a phase applies at most one path.
AttemptLowestUnmatchedOnly(conn, pair, dist, p) ==
  IF pair[p] = -1 /\ \A q \in 0..(p - 1) : pair[q] # -1
  THEN attemptAssignment(conn, pair, dist, p).pair
  ELSE pair

\* A variant of AttemptIfUnmatched that calls attemptAssignment for matched
\* givers too.
AttemptAlways(conn, pair, dist, p) == attemptAssignment(conn, pair, dist, p).pair

\* One iteration of the for loop of generateSecretSantaPairs.
AttemptIfUnmatched(conn, pair, dist, p) ==
  IF pair[p] = -1 THEN attemptAssignment(conn, pair, dist, p).pair ELSE pair

\* A variant of BuildPairs whose keys are the giver indices.
RECURSIVE BuildPairsByIndex(_, _, _, _, _)
BuildPairsByIndex(gs, rs, pair, i, acc) ==
  IF i >= Len(gs) THEN acc
  ELSE IF pair[i] # -1
       THEN BuildPairsByIndex(gs, rs, pair, i + 1,
                              MapSet(acc, i, rs[pair[i] - Len(gs) + 1]))
       ELSE BuildPairsByIndex(gs, rs, pair, i + 1, acc)

\* The result-map loop of generateSecretSantaPairs, from giver i on.
RECURSIVE BuildPairs(_, _, _, _, _)
BuildPairs(gs, rs, pair, i, acc) ==
  IF i >= Len(gs) THEN acc
  ELSE IF pair[i] # -1
       THEN LET receiverIndex == pair[i] - Len(gs)
                giverId == gs[i + 1]
                receiverId == rs[receiverIndex + 1]
            IN BuildPairs(gs, rs, pair, i + 1, MapSet(acc, giverId, receiverId))
       ELSE BuildPairs(gs, rs, pair, i + 1, acc)

-----------------------------------------------------------------------------
\* The matcher as a state machine.

IdList(n, base) == [i \in 1..n |-> base + i]

\* The matcher alone: no database, no request.
NoDatabase ==
  /\ groups = EmptyMap
  /\ group_members = {}
  /\ exclusions = {}
  /\ assignments = {}
  /\ slots = {}
  /\ req = EmptyMap
  /\ notification = EmptyMap
  /\ prior = {}
  /\ NoExclusionRequests

InitMatcher ==
  \E G \in 0..MaxN, R \in 0..MaxN :
    LET gs == IdList(G, 10)
        rs == IF R = G THEN gs ELSE IdList(R, 20)
        m == NewMatcher(gs, rs)
    IN /\ givers = m.givers
       /\ receivers = m.receivers
       /\ participantConnections = m.participantConnections
       /\ secretSantaPair = m.secretSantaPair
       /\ searchDistance = m.searchDistance
       /\ mpc = "build"
       /\ participant = 0
       /\ pairs = EmptyMap
       /\ threw = FALSE
       /\ argsInRange = TRUE
       /\ lastCall = <<-1, -1>>
       /\ phasePair = m.secretSantaPair
       /\ phases = 0
       /\ calls = 0
       /\ NoDatabase

\* The number of edges registered so far.
RECURSIVE EdgeCount(_, _)
EdgeCount(conn, p) ==
  IF p >= ArrayLen(conn) THEN 0 ELSE Len(conn[p]) + EdgeCount(conn, p + 1)

\* addSecretSantaPairing(giver, receiver); the model stops registering at
\* maxEdges edges.  An edge registered after a solve leaves the returned map
\* stale.
addSecretSantaPairingWithin(giver, receiver, maxEdges) ==
  /\ mpc \in {"build", "done"}
  /\ argsInRange' = (giver \in 0..(Len(givers) - 1) /\
                     receiver \in 0..(Len(receivers) - 1))
  /\ IF OutOfBounds(givers, receivers, giver, receiver)
     THEN /\ threw' = TRUE
          /\ UNCHANGED <<participantConnections, mpc>>
     ELSE /\ EdgeCount(participantConnections, 0) < maxEdges
          /\ threw' = FALSE
          /\ participantConnections' =
               PushPairing(participantConnections, givers, giver, receiver)
          /\ mpc' = IF mpc = "done" THEN "stale" ELSE mpc
  /\ UNCHANGED <<givers, receivers, secretSantaPair, searchDistance,
                 participant, pairs, phasePair, phases, calls, dbVars, reqVars,
                 exclVars>>

addSecretSantaPairing(giver, receiver) ==
  addSecretSantaPairingWithin(giver, receiver, MaxEdges)

AddPairing ==
  /\ \E giver \in -1..Len(givers), receiver \in -1..Len(receivers) :
       addSecretSantaPairing(giver, receiver)
  /\ UNCHANGED lastCall

\* generateSecretSantaPairs, entry: the shuffle
EnterSolve ==
  /\ participantConnections' \in
       shuffleParticipantConnections(participantConnections, 0)
  /\ mpc' = "layer"
  /\ threw' = FALSE
  /\ argsInRange' = TRUE
  /\ phases' = 0
  /\ calls' = calls + 1
  /\ UNCHANGED <<givers, receivers, secretSantaPair, searchDistance,
                 participant, pairs, lastCall, phasePair, dbVars, reqVars,
                 exclVars>>

\* The count of initializeSearchLayer calls after one more call; the count
\* stops at G + 2.
CountPhase(n) == IF n > Len(givers) + 1 THEN n ELSE n + 1

\* The first call on the instance.
Shuffle == mpc = "build" /\ EnterSolve

\* A later call on the instance, with no edge registered since the last one;
\* the model stops at MaxCalls calls.
ShuffleAgain == mpc = "done" /\ calls < MaxCalls /\ EnterSolve

\* A variant of Layering that starts each call from an empty match array.
LayeringFresh ==
  /\ mpc = "layer"
  /\ LET start == IF phases = 0 THEN ArrayFill(ArrayLen(secretSantaPair), -1)
                  ELSE secretSantaPair
         dist == initializeSearchLayer(participantConnections, start, Len(givers))
     IN /\ searchDistance' = dist
        /\ secretSantaPair' = start
        /\ phasePair' = start
        /\ IF LayerFound(dist)
           THEN mpc' = "augment" /\ participant' = 0
           ELSE mpc' = "extract" /\ UNCHANGED participant
  /\ phases' = CountPhase(phases)
  /\ UNCHANGED <<givers, receivers, participantConnections, pairs, threw,
                 argsInRange, lastCall, calls, dbVars, reqVars, exclVars>>

\* the while condition: one initializeSearchLayer call
Layering ==
  /\ mpc = "layer"
  /\ LET dist == initializeSearchLayer(participantConnections,
                                        secretSantaPair, Len(givers))
     IN /\ searchDistance' = dist
        /\ IF LayerFound(dist)
           THEN mpc' = "augment" /\ participant' = 0
           ELSE mpc' = "extract" /\ UNCHANGED participant
  /\ phasePair' = secretSantaPair
  /\ phases' = CountPhase(phases)
  /\ UNCHANGED <<givers, receivers, participantConnections, secretSantaPair,
                 pairs, threw, argsInRange, lastCall, calls, dbVars, reqVars,
                 exclVars>>

\* one iteration of the for loop over the givers
Augmenting ==
  /\ mpc = "augment"
  /\ participant < Len(givers)
  /\ secretSantaPair' = AttemptIfUnmatched(participantConnections,
                          secretSantaPair, searchDistance, participant)
  /\ participant' = participant + 1
  /\ mpc' = IF participant + 1 < Len(givers) THEN "augment" ELSE "layer"
  /\ UNCHANGED <<givers, receivers, participantConnections, searchDistance,
                 pairs, threw, argsInRange, lastCall, phasePair, phases, calls,
                 dbVars, reqVars, exclVars>>

\* the result map, and the return
Extract ==
  /\ mpc = "extract"
  /\ pairs' = BuildPairs(givers, receivers, secretSantaPair, 0, EmptyMap)
  /\ mpc' = "done"
  /\ UNCHANGED <<givers, receivers, participantConnections, secretSantaPair,
                 searchDistance, participant, threw, argsInRange, lastCall,
                 phasePair, phases, calls, dbVars, reqVars, exclVars>>

NextMatcher == AddPairing \/ Shuffle \/ Layering \/ Augmenting \/ Extract

SpecMatcher == InitMatcher /\ [][NextMatcher]_vars

\* The solve steps run to completion once generateSecretSantaPairs is called:
\* the method is synchronous.
\* One instance used as the program uses it: in-range edges are registered,
\* then generateSecretSantaPairs is called once.
RegisterEdge ==
  /\ mpc = "build"
  /\ \E giver \in 0..(Len(givers) - 1), receiver \in 0..(Len(receivers) - 1) :
       addSecretSantaPairing(giver, receiver)
  /\ UNCHANGED lastCall

Solve == Layering \/ Augmenting \/ Extract

NextSolve == RegisterEdge \/ Shuffle \/ Solve

FairSpecMatcher == InitMatcher /\ [][NextSolve]_vars /\ WF_vars(Solve)

\* The matcher used as the handler's registration loops use it: n givers that
\* are the receivers, edges registered giver by giver with increasing
\* receiver index, some pairs skipped, then one generateSecretSantaPairs call.
InitPhases ==
  \E n \in 1..MaxPhaseN :
    LET gs == IdList(n, 10)
        m == NewMatcher(gs, gs)
    IN /\ givers = m.givers
       /\ receivers = m.receivers
       /\ participantConnections = m.participantConnections
       /\ secretSantaPair = m.secretSantaPair
       /\ searchDistance = m.searchDistance
       /\ mpc = "build"
       /\ participant = 0
       /\ pairs = EmptyMap
       /\ threw = FALSE
       /\ argsInRange = TRUE
       /\ lastCall = <<-1, -1>>
       /\ phasePair = m.secretSantaPair
       /\ phases = 0
       /\ calls = 0
       /\ NoDatabase

\* The next pair of the nested loops that is not skipped.
RegisterInOrder ==
  /\ mpc = "build"
  /\ \E giver \in 0..(Len(givers) - 1), receiver \in 0..(Len(receivers) - 1) :
       /\ \A g \in (giver + 1)..(Len(givers) - 1) : participantConnections[g] = <<>>
       /\ \A k \in 1..Len(participantConnections[giver]) :
            participantConnections[giver][k] < Len(givers) + receiver
       /\ addSecretSantaPairingWithin(giver, receiver, MaxPhaseEdges)
  /\ UNCHANGED lastCall

NextPhases == RegisterInOrder \/ Shuffle \/ Layering \/ Augmenting \/ Extract

SpecPhases == InitPhases /\ [][NextPhases]_vars

\* One instance on which generateSecretSantaPairs is called again.
NextResolve ==
  RegisterEdge \/ Shuffle \/ ShuffleAgain \/ Layering \/ Augmenting \/ Extract

SpecResolve == InitMatcher /\ [][NextResolve]_vars

\* The registry with its calls recorded: in-range edges are registered,
\* before a solve or after one.
RecordedPairing ==
  \E giver \in 0..(Len(givers) - 1), receiver \in 0..(Len(receivers) - 1) :
    /\ addSecretSantaPairing(giver, receiver)
    /\ lastCall' = <<giver, receiver>>

NextRegistry == RecordedPairing \/ Shuffle \/ Solve

SpecRegistry == InitMatcher /\ [][NextRegistry]_vars

-----------------------------------------------------------------------------
\* generateSecretSantaPairs as one synchronous call: the solve loop, and the
\* maps it can return over the outcomes of the shuffle.

\* The for loop over the givers of one phase, from giver p on.
RECURSIVE AugmentAll(_, _, _, _, _)
AugmentAll(conn, pair, dist, p, numberOfGivers) ==
  IF p >= numberOfGivers THEN pair
  ELSE The({AugmentAll(conn, next, dist, p + 1, numberOfGivers) :
              next \in {AttemptIfUnmatched(conn, pair, dist, p)}})

\* A variant of RunPhases that runs one phase only.
RunPhasesOnce(conn, pair, numberOfGivers) ==
  The({IF LayerFound(dist)
       THEN AugmentAll(conn, pair, dist, 0, numberOfGivers)
       ELSE pair : dist \in {initializeSearchLayer(conn, pair, numberOfGivers)}})

\* The while (initializeSearchLayer()) loop.
RECURSIVE RunPhases(_, _, _)
RunPhases(conn, pair, numberOfGivers) ==
  The({IF LayerFound(dist)
       THEN RunPhases(conn, AugmentAll(conn, pair, dist, 0, numberOfGivers),
                      numberOfGivers)
       ELSE pair : dist \in {initializeSearchLayer(conn, pair, numberOfGivers)}})

generateSecretSantaPairs(m) ==
  {BuildPairs(m.givers, m.receivers,
              RunPhases(conn, m.secretSantaPair, Len(m.givers)), 0, EmptyMap) :
     conn \in shuffleParticipantConnections(m.participantConnections, 0)}

-----------------------------------------------------------------------------
\* The database and POST /:id/assign.

Users == 1..MaxUsers

\* The ids of the users table: group_members.user_id references users(id).
UserIds == Users \cup {x[2] : x \in group_members}

\* ORDER BY u.id on a set of ids
RECURSIVE SortedSeq(_)
SortedSeq(S) ==
  IF S = {} THEN <<>>
  ELSE LET m == CHOOSE x \in S : \A y \in S : x <= y
       IN <<m>> \o SortedSeq(S \ {m})

\* SELECT created_by FROM groups WHERE id = $1
GroupCheck(groupId) == IF groupId \in DOMAIN groups THEN <<groups[groupId]>> ELSE <<>>

\* The member query of the handler: the ids, ordered.
MembersQuery(userId, groupId) ==
  SortedSeq({u \in UserIds :
               \/ u = userId /\ groupId \in DOMAIN groups /\ u = groups[groupId]
               \/ <<groupId, u>> \in group_members})

\* SELECT giver_id, excluded_user_id FROM exclusions WHERE group_id = $1
ExclusionsQuery(groupId) == {<<x[2], x[3]>> : x \in {e \in exclusions : e[1] = groupId}}

\* `${giver_id}-${excluded_user_id}`
ExclusionKey(giverId, excludedUserId) ==
  ToString(giverId) \o "-" \o ToString(excludedUserId)

\* A variant of ExclusionSet whose keys lack the excluded user.
ExclusionSetGiverKeys(rows) == {ToString(x[1]) \o "-" : x \in rows}

\* The Set filled by exclusions.forEach
ExclusionSet(rows) == {ExclusionKey(x[1], x[2]) : x \in rows}

\* A variant of ValidPairing without the self-assignment test.
ValidPairingNoSelfTest(giverId, receiverId, exclusionSet) ==
  ExclusionKey(giverId, receiverId) \notin exclusionSet

\* A variant of ValidPairing without the exclusion test.
ValidPairingNoExclusionTest(giverId, receiverId, exclusionSet) ==
  giverId # receiverId

\* The two skips of the registration loops: TRUE when the pairing is added.
ValidPairing(giverId, receiverId, exclusionSet) ==
  /\ giverId # receiverId
  /\ ExclusionKey(giverId, receiverId) \notin exclusionSet

\* The inner registration loop for giver i, from receiver j on: the
\* adjacency lists, and whether addSecretSantaPairing threw.
RECURSIVE AddPairingsOfGiver(_, _, _, _, _, _)
AddPairingsOfGiver(giverIds, receiverIds, exclusionSet, i, j, conn) ==
  IF j >= Len(receiverIds) THEN [threw |-> FALSE, conn |-> conn]
  ELSE IF ~ValidPairing(giverIds[i + 1], receiverIds[j + 1], exclusionSet)
  THEN AddPairingsOfGiver(giverIds, receiverIds, exclusionSet, i, j + 1, conn)
  ELSE IF OutOfBounds(giverIds, receiverIds, i, j)
  THEN [threw |-> TRUE, conn |-> conn]
  ELSE The({AddPairingsOfGiver(giverIds, receiverIds, exclusionSet, i, j + 1, c) :
              c \in {PushPairing(conn, giverIds, i, j)}})

\* The nested registration loops, from (i, j) on.
RECURSIVE AddValidPairings(_, _, _, _, _, _)
AddValidPairings(giverIds, receiverIds, exclusionSet, i, j, conn) ==
  IF i >= Len(giverIds) THEN [threw |-> FALSE, conn |-> conn]
  ELSE The({IF row.threw THEN row
            ELSE AddValidPairings(giverIds, receiverIds, exclusionSet, i + 1, 0,
                                  row.conn) :
              row \in {AddPairingsOfGiver(giverIds, receiverIds, exclusionSet,
                                          i, j, conn)}})

\* The keys of a result map in iteration (insertion) order: BuildPairs sets
\* them in giver order.
RECURSIVE MapKeys(_, _, _)
MapKeys(giverIds, m, i) ==
  IF i > Len(giverIds) THEN <<>>
  ELSE IF giverIds[i] \in DOMAIN m
       THEN <<giverIds[i]>> \o MapKeys(giverIds, m, i + 1)
       ELSE MapKeys(giverIds, m, i + 1)

NoResponse == [status |-> 0, error |-> ""]

IdleRequest ==
  [pc |-> "idle", userId |-> 0, groupId |-> 0, members |-> <<>>,
   pairs |-> EmptyMap, inserted |-> 0, response |-> NoResponse]

Respond(r, status, error) ==
  [r EXCEPT !.pc = "done", !.response = [status |-> status, error |-> error]]

\* The request arrives; the owner check.
AssignGroupCheck(s) ==
  /\ req[s].pc = "idle"
  /\ \E userId \in Users, groupId \in {1, 2} :
       LET groupCheck == GroupCheck(groupId)
           r == [req[s] EXCEPT !.userId = userId, !.groupId = groupId]
       IN req' = [req EXCEPT ![s] =
            IF Len(groupCheck) = 0 THEN Respond(r, 404, "Group not found")
            ELSE IF groupCheck[1] # userId
            THEN Respond(r, 403, "Only group owner can trigger assignments")
            ELSE [r EXCEPT !.pc = "members"]]
  /\ UNCHANGED <<exclVars, matcherVars, dbVars, slots, notification, prior>>

\* The member query and the size check.
AssignMembers(s) ==
  /\ req[s].pc = "members"
  /\ LET members == MembersQuery(req[s].userId, req[s].groupId)
     IN req' = [req EXCEPT ![s] =
          IF Len(members) < 2
          THEN Respond(@, 400, "Need at least 2 members to create assignments")
          ELSE [@ EXCEPT !.pc = "match", !.members = members]]
  /\ UNCHANGED <<exclVars, matcherVars, dbVars, slots, notification, prior>>

\* The matcher the handler builds from the members and the exclusion rows.
BuildMatcher(giverIds, exclusionRows) ==
  LET receiverIds == giverIds
      m == NewMatcher(giverIds, receiverIds)
      added == AddValidPairings(giverIds, receiverIds,
                                ExclusionSet(exclusionRows), 0, 0,
                                m.participantConnections)
  IN [threw |-> added.threw,
      matcher |-> [m EXCEPT !.participantConnections = added.conn]]

\* A variant of IncompleteMatching that only rejects an empty result.
IncompleteOnlyWhenEmpty(result, members) == MapSize(result) = 0

\* pairs.size < members.length
IncompleteMatching(result, members) == MapSize(result) < Len(members)

\* The exclusion query, the matcher run and the completeness check.
AssignMatch(s) ==
  /\ req[s].pc = "match"
  /\ LET built == BuildMatcher(req[s].members, ExclusionsQuery(req[s].groupId))
     IN IF built.threw
        THEN req' = [req EXCEPT ![s] =
                       Respond(@, 500, "Failed to create assignments")]
        ELSE \E result \in generateSecretSantaPairs(built.matcher) :
               req' = [req EXCEPT ![s] =
                 IF IncompleteMatching(result, req[s].members)
                 THEN Respond([@ EXCEPT !.pairs = result], 500,
                              "Failed to create valid assignments")
                 ELSE [@ EXCEPT !.pc = "delete", !.pairs = result]]
  /\ UNCHANGED <<exclVars, matcherVars, dbVars, slots, notification, prior>>

\* DELETE FROM assignments WHERE group_id = $1
AssignDelete(s) ==
  /\ req[s].pc = "delete"
  /\ assignments' = {a \in assignments : a[1] # req[s].groupId}
  /\ req' = [req EXCEPT ![s].pc = "insert"]
  /\ UNCHANGED <<exclVars, matcherVars, groups, group_members, exclusions, slots,
                 notification, prior>>

\* UNIQUE(group_id, giver_id)
UniqueViolation(row) ==
  \E a \in assignments : a[1] = row[1] /\ a[2] = row[2]

\* One INSERT INTO assignments of the for loop over pairs.entries().
AssignInsert(s) ==
  /\ req[s].pc = "insert"
  /\ LET keys == MapKeys(req[s].members, req[s].pairs, 1)
         giverId == keys[req[s].inserted + 1]
         row == <<req[s].groupId, giverId, req[s].pairs[giverId]>>
     IN IF UniqueViolation(row)
        THEN /\ req' = [req EXCEPT ![s] =
                          Respond(@, 500, "Failed to create assignments")]
             /\ UNCHANGED assignments
        ELSE /\ assignments' = assignments \cup {row}
             /\ req' = [req EXCEPT ![s].inserted = @ + 1,
                                   ![s].pc = IF req[s].inserted + 1 < Len(keys)
                                             THEN "insert" ELSE "groupName"]
  /\ UNCHANGED <<exclVars, matcherVars, groups, group_members, exclusions, slots,
                 notification, prior>>

\* The group name query, the start of sendAssignmentNotification (not
\* awaited) and the success response.
AssignRespond(s) ==
  /\ req[s].pc = "groupName"
  /\ notification' = [notification EXCEPT ![s] = "pending"]
  /\ req' = [req EXCEPT ![s] = Respond(@, 200, "")]
  /\ UNCHANGED <<exclVars, matcherVars, dbVars, slots, prior>>

\* sendAssignmentNotification ends: the pushes were sent, or none was to send.
NotificationSent(s) ==
  /\ notification[s] = "pending"
  /\ notification' = [notification EXCEPT ![s] = "sent"]
  /\ UNCHANGED <<exclVars, matcherVars, dbVars, slots, req, prior>>

\* A variant of NotificationFailed that puts the earlier assignments back.
NotificationFailedRollsBack(s) ==
  /\ notification[s] = "pending"
  /\ notification' = [notification EXCEPT ![s] = "failed"]
  /\ assignments' = prior
  /\ UNCHANGED <<exclVars, matcherVars, groups, group_members, exclusions, slots, req,
                 prior>>

\* sendAssignmentNotification ends in its catch: the error is logged.
NotificationFailed(s) ==
  /\ notification[s] = "pending"
  /\ notification' = [notification EXCEPT ![s] = "failed"]
  /\ UNCHANGED <<exclVars, matcherVars, dbVars, slots, req, prior>>

NextAssign ==
  \/ \E s \in slots : AssignGroupCheck(s)
  \/ \E s \in slots : AssignMembers(s)
  \/ \E s \in slots : AssignMatch(s)
  \/ \E s \in slots : AssignDelete(s)
  \/ \E s \in slots : AssignInsert(s)
  \/ \E s \in slots : AssignRespond(s)
  \/ \E s \in slots : NotificationSent(s)
  \/ \E s \in slots : NotificationFailed(s)

\* No matcher instance outside the handler's own.
NoMatcher ==
  /\ givers = <<>>
  /\ receivers = <<>>
  /\ participantConnections = EmptyMap
  /\ secretSantaPair = EmptyMap
  /\ searchDistance = EmptyMap
  /\ mpc = "none"
  /\ participant = 0
  /\ pairs = EmptyMap
  /\ threw = FALSE
  /\ argsInRange = TRUE
  /\ lastCall = <<-1, -1>>
  /\ phasePair = EmptyMap
  /\ phases = 0
  /\ calls = 0

\* The assignments an earlier run left for the participants P: each gives to
\* the next one in id order.
EarlierAssignments(groupId, P) ==
  LET ids == SortedSeq(P)
  IN {<<groupId, ids[k], ids[(k % Len(ids)) + 1]>> : k \in 1..Len(ids)}

\* A group 1 with an owner, some members, some exclusion rows, and either no
\* assignments yet or those of an earlier run.
InitDatabase ==
  \E owner \in Users :
    /\ groups = (1 :> owner)
    /\ group_members \in SUBSET ({1} \X (Users \ {owner}))
    /\ exclusions \in
         {X \in SUBSET {x \in {1} \X Users \X Users : x[2] # x[3]} :
            Cardinality(X) <= MaxExclusions}
    /\ LET P == {owner} \cup {x[2] : x \in group_members}
       IN assignments \in
            {{}} \cup (IF Cardinality(P) >= 2
                       THEN {EarlierAssignments(1, P)} ELSE {})
    /\ prior = assignments
    /\ NoExclusionRequests

InitRequests(S) ==
  /\ slots = S
  /\ req = [s \in S |-> IdleRequest]
  /\ notification = [s \in S |-> "none"]

\* One assignment request.
InitAssign == NoMatcher /\ InitDatabase /\ InitRequests({1})

SpecAssign == InitAssign /\ [][NextAssign]_vars

\* Two assignment requests in flight.
InitConcurrent == NoMatcher /\ InitDatabase /\ InitRequests({1, 2})

SpecConcurrent == InitConcurrent /\ [][NextAssign]_vars

\* A group of 4 participants, owned by user 1, whose only exclusion is one
\* pair A, B, stored in both directions.  (4 is the smallest size for which
\* such a group has a complete matching; the shuffle outcomes of larger
\* groups are too many to enumerate.)
InitPairExclusion ==
  \E n \in {4} :
    \E A \in 1..n, B \in 1..n :
      /\ A < B
      /\ groups = (1 :> 1)
      /\ group_members = {1} \X (2..n)
      /\ exclusions = {<<1, A, B>>, <<1, B, A>>}
      /\ assignments \in {{}, EarlierAssignments(1, 1..n)}
      /\ prior = assignments
      /\ NoExclusionRequests
      /\ NoMatcher
      /\ InitRequests({1})

SpecPairExclusion == InitPairExclusion /\ [][NextAssign]_vars

-----------------------------------------------------------------------------
\* The handlers that change who belongs to a group, each request handled
\* from its first query to its response before the next one starts.  Columns
\* that none of these handlers reads (the inviter, the timestamps) are left
\* out, and an invitation is looked up by its row.  A branch that answers
\* with an error leaves every table as it is.

\* The inviter is the owner or has a row in group_members.
IsInGroup(groupId, u) == groups[groupId] = u \/ <<groupId, u>> \in group_members

\* groups.invite_token: the token of group g is g, and 0 is a token of no
\* group.
GroupByToken(token) == {g \in DOMAIN groups : g = token}

\* UPDATE invitations SET status = ... on the rows R
SetStatus(R, status) ==
  (invitations \ R) \cup {<<inv[1], inv[2], status>> : inv \in R}

\* POST /join/:token
JoinByToken ==
  /\ \E userId \in Users, token \in {0} \cup DOMAIN groups :
       \E groupId \in GroupByToken(token) :
         /\ <<groupId, userId>> \notin group_members
         /\ groups[groupId] # userId
         /\ group_members' = group_members \cup {<<groupId, userId>>}
         /\ invitations' =
              SetStatus({inv \in invitations :
                           inv[1] = groupId /\ inv[2] = userId /\ inv[3] = "pending"},
                        "accepted")
  /\ UNCHANGED <<matcherVars, reqVars, groups, exclusions, assignments,
                 exclusionIds, nextExclusionId, exclusionsUnique, xreq, hreq>>

\* The tests of POST /:id/invite on the invitee: not the inviter, and no row
\* in group_members.
InviteeAllowed(groupId, userId, inviteeId) ==
  /\ inviteeId # userId
  /\ <<groupId, inviteeId>> \notin group_members

\* POST /:id/invite; the notification is not awaited and changes no table.
Invite ==
  /\ \E userId \in Users, groupId \in DOMAIN groups, inviteeId \in Users :
       /\ IsInGroup(groupId, userId)
       /\ InviteeAllowed(groupId, userId, inviteeId)
       /\ LET existingInvite ==
                {inv \in invitations : inv[1] = groupId /\ inv[2] = inviteeId}
          IN /\ \A inv \in existingInvite : inv[3] # "pending"
             /\ invitations' = IF existingInvite # {}
                               THEN SetStatus(existingInvite, "pending")
                               ELSE invitations \cup {<<groupId, inviteeId, "pending">>}
  /\ UNCHANGED <<matcherVars, reqVars, dbVars, exclusionIds, nextExclusionId,
                 exclusionsUnique, xreq, hreq>>

\* POST /invitations/:id/accept
AcceptInvitation ==
  /\ \E userId \in Users, invitation \in invitations :
       /\ invitation[2] = userId
       /\ invitation[3] = "pending"
       /\ group_members' = group_members \cup {<<invitation[1], userId>>}
       /\ invitations' = SetStatus({invitation}, "accepted")
  /\ UNCHANGED <<matcherVars, reqVars, groups, exclusions, assignments,
                 exclusionIds, nextExclusionId, exclusionsUnique, xreq, hreq>>

\* POST /invitations/:id/reject
RejectInvitation ==
  /\ \E userId \in Users, invitation \in invitations :
       /\ invitation[2] = userId
       /\ invitation[3] = "pending"
       /\ invitations' = SetStatus({invitation}, "rejected")
  /\ UNCHANGED <<matcherVars, reqVars, dbVars, exclusionIds, nextExclusionId,
                 exclusionsUnique, xreq, hreq>>

\* DELETE /:id/members/:userId
RemoveMember ==
  /\ \E userId \in Users, groupId \in DOMAIN groups, memberId \in Users :
       /\ groups[groupId] = userId
       /\ memberId # userId
       /\ group_members' = group_members \ {<<groupId, memberId>>}
  /\ UNCHANGED <<matcherVars, reqVars, groups, exclusions, assignments, exclVars>>

\* No assignment request is between its first query and its response.
NoAssignInFlight == \A s \in slots : req[s].pc \in {"idle", "done"}

NextMembership ==
  \/ \E s \in slots : AssignGroupCheck(s)
  \/ \E s \in slots : AssignMembers(s)
  \/ \E s \in slots : AssignMatch(s)
  \/ \E s \in slots : AssignDelete(s)
  \/ \E s \in slots : AssignInsert(s)
  \/ \E s \in slots : AssignRespond(s)
  \/ NoAssignInFlight /\ JoinByToken
  \/ NoAssignInFlight /\ Invite
  \/ NoAssignInFlight /\ AcceptInvitation
  \/ NoAssignInFlight /\ RejectInvitation
  \/ NoAssignInFlight /\ RemoveMember

\* Group 1 of owner 1 with some of the users 2 and 3 as members, no
\* exclusions, no invitations, and either no assignments or those of an
\* earlier run.
InitMembership ==
  /\ groups = (1 :> 1)
  /\ group_members \in SUBSET ({1} \X (Users \ {1}))
  /\ exclusions = {}
  /\ LET P == {1} \cup {x[2] : x \in group_members}
     IN assignments \in
          {{}} \cup (IF Cardinality(P) >= 2 THEN {EarlierAssignments(1, P)} ELSE {})
  /\ prior = assignments
  /\ NoExclusionRequests
  /\ NoMatcher
  /\ InitRequests({1})

SpecMembership == InitMembership /\ [][NextMembership]_vars

-----------------------------------------------------------------------------
\* POST /:id/exclusions and DELETE /:id/exclusions/:exclusionId.  Each
\* pool.query is one step: the statements of a request go to whichever
\* pooled client is idle, so BEGIN and COMMIT do not isolate them.

\* SELECT 1 FROM groups ... UNION SELECT 1 FROM group_members ...
IsMember(groupId, u) ==
  \/ groupId \in DOMAIN groups /\ groups[groupId] = u
  \/ <<groupId, u>> \in group_members

\* The rows of the table without their ids.
ExclusionTriples(table) == {<<x[2], x[3], x[4]>> : x \in table}

\* INSERT INTO exclusions ... ON CONFLICT DO NOTHING
InsertExclusion(table, id, groupId, giverId, excludedUserId) ==
  IF exclusionsUnique /\ <<groupId, giverId, excludedUserId>> \in ExclusionTriples(table)
  THEN table
  ELSE table \cup {<<id, groupId, giverId, excludedUserId>>}

IdleExclusionRequest ==
  [kind |-> "none", pc |-> "idle", userId |-> 0, groupId |-> 0, giverId |-> 0,
   excludedUserId |-> 0, exclusionId |-> 0, owner |-> 0, reverse |-> 0,
   response |-> NoResponse]

\* The request arrives with its body; the owner query and the checks on it.
\* A giver_id of 0 stands for an absent one.
AddExclusionGroupCheck(s) ==
  /\ xreq[s].pc = "idle"
  /\ \E userId \in Users, groupId \in {1, 2}, giver_id \in {0} \cup Users,
        excluded_user_id \in {0} \cup Users :
       LET targetGiverId == IF giver_id = 0 THEN userId ELSE giver_id
           groupCheck == GroupCheck(groupId)
           r == [xreq[s] EXCEPT !.kind = "add", !.userId = userId,
                                !.groupId = groupId, !.giverId = targetGiverId,
                                !.excludedUserId = excluded_user_id]
       IN xreq' = [xreq EXCEPT ![s] =
            IF excluded_user_id = 0
            THEN Respond(r, 400, "excluded_user_id is required")
            ELSE IF Len(groupCheck) = 0 THEN Respond(r, 404, "Group not found")
            ELSE IF targetGiverId # userId /\ groupCheck[1] # userId
            THEN Respond(r, 403, "Only group owner can set exclusions for other members")
            ELSE [r EXCEPT !.pc = "giverMemberCheck", !.owner = groupCheck[1]]]
  /\ UNCHANGED <<matcherVars, dbVars, reqVars, exclusionIds, nextExclusionId,
                 exclusionsUnique, hreq, invitations>>

AddExclusionGiverCheck(s) ==
  /\ xreq[s].kind = "add" /\ xreq[s].pc = "giverMemberCheck"
  /\ xreq' = [xreq EXCEPT ![s] =
       IF ~IsMember(xreq[s].groupId, xreq[s].giverId)
       THEN Respond(@, 400, "Giver is not a member of this group")
       ELSE [@ EXCEPT !.pc = "excludedMemberCheck"]]
  /\ UNCHANGED <<matcherVars, dbVars, reqVars, exclusionIds, nextExclusionId,
                 exclusionsUnique, hreq, invitations>>

\* excluded_user_id === groupCheck.rows[0].created_by
ExcludesOwner(giverId, excludedUserId, owner) == excludedUserId = owner

\* The second membership query, the self test and the owner test.
AddExclusionExcludedCheck(s) ==
  /\ xreq[s].kind = "add" /\ xreq[s].pc = "excludedMemberCheck"
  /\ xreq' = [xreq EXCEPT ![s] =
       IF ~IsMember(xreq[s].groupId, xreq[s].excludedUserId)
       THEN Respond(@, 400, "Excluded user is not a member of this group")
       ELSE IF xreq[s].giverId = xreq[s].excludedUserId
       THEN Respond(@, 400, "Cannot exclude yourself")
       ELSE IF ExcludesOwner(xreq[s].giverId, xreq[s].excludedUserId, xreq[s].owner)
       THEN Respond(@, 400, "Cannot exclude the group owner")
       ELSE [@ EXCEPT !.pc = "insert"]]
  /\ UNCHANGED <<matcherVars, dbVars, reqVars, exclusionIds, nextExclusionId,
                 exclusionsUnique, hreq, invitations>>

\* BEGIN, and the insert of the row A -> B
AddExclusionInsert(s) ==
  /\ xreq[s].kind = "add" /\ xreq[s].pc = "insert"
  /\ exclusionIds' = InsertExclusion(exclusionIds, nextExclusionId,
                       xreq[s].groupId, xreq[s].giverId, xreq[s].excludedUserId)
  /\ nextExclusionId' = nextExclusionId + 1
  /\ exclusions' = ExclusionTriples(exclusionIds')
  /\ xreq' = [xreq EXCEPT ![s].pc = "insertReverse"]
  /\ UNCHANGED <<matcherVars, groups, group_members, assignments, reqVars,
                 exclusionsUnique, hreq, invitations>>

\* The insert of the row B -> A, COMMIT, and the response.
AddExclusionInsertReverse(s) ==
  /\ xreq[s].kind = "add" /\ xreq[s].pc = "insertReverse"
  /\ exclusionIds' = InsertExclusion(exclusionIds, nextExclusionId,
                       xreq[s].groupId, xreq[s].excludedUserId, xreq[s].giverId)
  /\ nextExclusionId' = nextExclusionId + 1
  /\ exclusions' = ExclusionTriples(exclusionIds')
  /\ xreq' = [xreq EXCEPT ![s] = Respond(@, 200, "")]
  /\ UNCHANGED <<matcherVars, groups, group_members, assignments, reqVars,
                 exclusionsUnique, hreq, invitations>>

DeleteExclusion(table, id) == {x \in table : x[1] # id}

\* The request arrives; the owner query.
RemoveExclusionGroupCheck(s) ==
  /\ xreq[s].pc = "idle"
  /\ \E userId \in Users, groupId \in {1, 2}, exclusionId \in 1..nextExclusionId :
       LET groupCheck == GroupCheck(groupId)
           r == [xreq[s] EXCEPT !.kind = "remove", !.userId = userId,
                                !.groupId = groupId, !.exclusionId = exclusionId]
       IN xreq' = [xreq EXCEPT ![s] =
            IF Len(groupCheck) = 0 THEN Respond(r, 404, "Group not found")
            ELSE [r EXCEPT !.pc = "exclusionCheck", !.owner = groupCheck[1]]]
  /\ UNCHANGED <<matcherVars, dbVars, reqVars, exclusionIds, nextExclusionId,
                 exclusionsUnique, hreq, invitations>>

\* SELECT giver_id FROM exclusions WHERE id = $1 AND group_id = $2
RemoveExclusionCheck(s) ==
  /\ xreq[s].kind = "remove" /\ xreq[s].pc = "exclusionCheck"
  /\ LET rows == {x \in exclusionIds :
                    x[1] = xreq[s].exclusionId /\ x[2] = xreq[s].groupId}
     IN xreq' = [xreq EXCEPT ![s] =
          IF rows = {} THEN Respond(@, 404, "Exclusion not found")
          ELSE IF The(rows)[3] # xreq[s].userId /\ xreq[s].owner # xreq[s].userId
          THEN Respond(@, 403, "You can only remove your own exclusions")
          ELSE [@ EXCEPT !.pc = "details", !.giverId = The(rows)[3]]]
  /\ UNCHANGED <<matcherVars, dbVars, reqVars, exclusionIds, nextExclusionId,
                 exclusionsUnique, hreq, invitations>>

\* SELECT excluded_user_id FROM exclusions WHERE id = $1
RemoveExclusionDetails(s) ==
  /\ xreq[s].kind = "remove" /\ xreq[s].pc = "details"
  /\ LET rows == {x \in exclusionIds : x[1] = xreq[s].exclusionId}
     IN xreq' = [xreq EXCEPT ![s] =
          IF rows = {} THEN Respond(@, 404, "Exclusion not found")
          ELSE [@ EXCEPT !.pc = "reverse", !.excludedUserId = The(rows)[4]]]
  /\ UNCHANGED <<matcherVars, dbVars, reqVars, exclusionIds, nextExclusionId,
                 exclusionsUnique, hreq, invitations>>

\* The query for the reverse row; rows[0] is any of the rows found.
RemoveExclusionReverse(s) ==
  /\ xreq[s].kind = "remove" /\ xreq[s].pc = "reverse"
  /\ LET rows == {x \in exclusionIds :
                    /\ x[2] = xreq[s].groupId
                    /\ x[3] = xreq[s].excludedUserId
                    /\ x[4] = xreq[s].giverId}
     IN \E reverse \in IF rows = {} THEN {0} ELSE {x[1] : x \in rows} :
          xreq' = [xreq EXCEPT ![s].pc = "delete", ![s].reverse = reverse]
  /\ UNCHANGED <<matcherVars, dbVars, reqVars, exclusionIds, nextExclusionId,
                 exclusionsUnique, hreq, invitations>>

\* BEGIN and the DELETE of the row; without a reverse row, COMMIT and the
\* response.
RemoveExclusionDelete(s) ==
  /\ xreq[s].kind = "remove" /\ xreq[s].pc = "delete"
  /\ exclusionIds' = DeleteExclusion(exclusionIds, xreq[s].exclusionId)
  /\ exclusions' = ExclusionTriples(exclusionIds')
  /\ xreq' = [xreq EXCEPT ![s] =
       IF xreq[s].reverse # 0 THEN [@ EXCEPT !.pc = "deleteReverse"]
       ELSE Respond(@, 200, "")]
  /\ UNCHANGED <<matcherVars, groups, group_members, assignments, reqVars,
                 nextExclusionId, exclusionsUnique, hreq, invitations>>

\* The DELETE of the reverse row, COMMIT and the response.
RemoveExclusionDeleteReverse(s) ==
  /\ xreq[s].kind = "remove" /\ xreq[s].pc = "deleteReverse"
  /\ exclusionIds' = DeleteExclusion(exclusionIds, xreq[s].reverse)
  /\ exclusions' = ExclusionTriples(exclusionIds')
  /\ xreq' = [xreq EXCEPT ![s] = Respond(@, 200, "")]
  /\ UNCHANGED <<matcherVars, groups, group_members, assignments, reqVars,
                 nextExclusionId, exclusionsUnique, hreq, invitations>>

NextExclusions ==
  \/ \E s \in DOMAIN xreq : AddExclusionGroupCheck(s)
  \/ \E s \in DOMAIN xreq : AddExclusionGiverCheck(s)
  \/ \E s \in DOMAIN xreq : AddExclusionExcludedCheck(s)
  \/ \E s \in DOMAIN xreq : AddExclusionInsert(s)
  \/ \E s \in DOMAIN xreq : AddExclusionInsertReverse(s)
  \/ \E s \in DOMAIN xreq : RemoveExclusionGroupCheck(s)
  \/ \E s \in DOMAIN xreq : RemoveExclusionCheck(s)
  \/ \E s \in DOMAIN xreq : RemoveExclusionDetails(s)
  \/ \E s \in DOMAIN xreq : RemoveExclusionReverse(s)
  \/ \E s \in DOMAIN xreq : RemoveExclusionDelete(s)
  \/ \E s \in DOMAIN xreq : RemoveExclusionDeleteReverse(s)

\* Group 1 owned by user 1, with member 2 and perhaps 3; the table is empty
\* or holds the pair 2, 3 an earlier request added; two requests.
InitExclusions ==
  /\ groups = (1 :> 1)
  /\ group_members \in {{<<1, 2>>}, {<<1, 2>>, <<1, 3>>}}
  /\ exclusions \in {{}} \cup (IF <<1, 3>> \in group_members
                               THEN {{<<1, 2, 3>>, <<1, 3, 2>>}} ELSE {})
  /\ exclusionIds = ExclusionTable(exclusions)
  /\ nextExclusionId = Cardinality(exclusions) + 1
  /\ exclusionsUnique \in BOOLEAN
  /\ xreq = [s \in {1, 2} |-> IdleExclusionRequest]
  /\ hreq = [pc |-> "idle", method |-> "", path |-> "", header |-> "absent",
             layer |-> 0, inline |-> FALSE, userId |-> 0, ran |-> FALSE,
             read |-> FALSE, wrote |-> FALSE, status |-> 0]
  /\ invitations = {}
  /\ assignments = {}
  /\ prior = {}
  /\ slots = {}
  /\ req = EmptyMap
  /\ notification = EmptyMap
  /\ NoMatcher

SpecExclusions == InitExclusions /\ [][NextExclusions]_vars

-----------------------------------------------------------------------------
\* The router mounted at /api/groups and the authenticateToken middleware.

\* A variant of RouterStack with router.use(authenticateToken) registered
\* after the join route.
RouterStackAuthLate ==
  <<[method |-> "GET", path |-> "/invite/:token", inlineAuth |-> FALSE],
    [method |-> "POST", path |-> "/join/:token", inlineAuth |-> FALSE],
    [method |-> "USE", path |-> "", inlineAuth |-> FALSE],
    [method |-> "GET", path |-> "/", inlineAuth |-> FALSE],
    [method |-> "GET", path |-> "/invitations/pending", inlineAuth |-> FALSE],
    [method |-> "POST", path |-> "/invitations/:id/accept", inlineAuth |-> FALSE],
    [method |-> "POST", path |-> "/invitations/:id/reject", inlineAuth |-> FALSE],
    [method |-> "DELETE", path |-> "/:id/invitations/:invitationId", inlineAuth |-> FALSE],
    [method |-> "GET", path |-> "/:id", inlineAuth |-> FALSE],
    [method |-> "POST", path |-> "/", inlineAuth |-> FALSE],
    [method |-> "PUT", path |-> "/:id", inlineAuth |-> FALSE],
    [method |-> "GET", path |-> "/:id/invite-link", inlineAuth |-> FALSE],
    [method |-> "DELETE", path |-> "/:id", inlineAuth |-> FALSE],
    [method |-> "POST", path |-> "/:id/invite", inlineAuth |-> FALSE],
    [method |-> "DELETE", path |-> "/:id/members/:userId", inlineAuth |-> FALSE],
    [method |-> "POST", path |-> "/:id/assign", inlineAuth |-> FALSE],
    [method |-> "GET", path |-> "/:id/assignment", inlineAuth |-> FALSE],
    [method |-> "GET", path |-> "/:id/assignments", inlineAuth |-> FALSE],
    [method |-> "DELETE", path |-> "/:id/assignments", inlineAuth |-> FALSE],
    [method |-> "POST", path |-> "/:id/gift-ideas", inlineAuth |-> FALSE],
    [method |-> "GET", path |-> "/:id/gift-ideas", inlineAuth |-> FALSE],
    [method |-> "PUT", path |-> "/:id/gift-ideas/:ideaId", inlineAuth |-> FALSE],
    [method |-> "DELETE", path |-> "/:id/gift-ideas/:ideaId", inlineAuth |-> FALSE],
    [method |-> "GET", path |-> "/:id/exclusions", inlineAuth |-> TRUE],
    [method |-> "POST", path |-> "/:id/exclusions", inlineAuth |-> TRUE],
    [method |-> "DELETE", path |-> "/:id/exclusions/:exclusionId", inlineAuth |-> TRUE]>>

\* The layers of the router in registration order: router.use and the routes,
\* the exclusion routes with authenticateToken before their handler.
RouterStack ==
  <<[method |-> "GET", path |-> "/invite/:token", inlineAuth |-> FALSE],
    [method |-> "USE", path |-> "", inlineAuth |-> FALSE],
    [method |-> "POST", path |-> "/join/:token", inlineAuth |-> FALSE],
    [method |-> "GET", path |-> "/", inlineAuth |-> FALSE],
    [method |-> "GET", path |-> "/invitations/pending", inlineAuth |-> FALSE],
    [method |-> "POST", path |-> "/invitations/:id/accept", inlineAuth |-> FALSE],
    [method |-> "POST", path |-> "/invitations/:id/reject", inlineAuth |-> FALSE],
    [method |-> "DELETE", path |-> "/:id/invitations/:invitationId", inlineAuth |-> FALSE],
    [method |-> "GET", path |-> "/:id", inlineAuth |-> FALSE],
    [method |-> "POST", path |-> "/", inlineAuth |-> FALSE],
    [method |-> "PUT", path |-> "/:id", inlineAuth |-> FALSE],
    [method |-> "GET", path |-> "/:id/invite-link", inlineAuth |-> FALSE],
    [method |-> "DELETE", path |-> "/:id", inlineAuth |-> FALSE],
    [method |-> "POST", path |-> "/:id/invite", inlineAuth |-> FALSE],
    [method |-> "DELETE", path |-> "/:id/members/:userId", inlineAuth |-> FALSE],
    [method |-> "POST", path |-> "/:id/assign", inlineAuth |-> FALSE],
    [method |-> "GET", path |-> "/:id/assignment", inlineAuth |-> FALSE],
    [method |-> "GET", path |-> "/:id/assignments", inlineAuth |-> FALSE],
    [method |-> "DELETE", path |-> "/:id/assignments", inlineAuth |-> FALSE],
    [method |-> "POST", path |-> "/:id/gift-ideas", inlineAuth |-> FALSE],
    [method |-> "GET", path |-> "/:id/gift-ideas", inlineAuth |-> FALSE],
    [method |-> "PUT", path |-> "/:id/gift-ideas/:ideaId", inlineAuth |-> FALSE],
    [method |-> "DELETE", path |-> "/:id/gift-ideas/:ideaId", inlineAuth |-> FALSE],
    [method |-> "GET", path |-> "/:id/exclusions", inlineAuth |-> TRUE],
    [method |-> "POST", path |-> "/:id/exclusions", inlineAuth |-> TRUE],
    [method |-> "DELETE", path |-> "/:id/exclusions/:exclusionId", inlineAuth |-> TRUE]>>

\* The Authorization header of a request: absent, "Bearer" without a token,
\* a token that jwt.verify rejects, a token it accepts.
Headers == {"absent", "noToken", "invalid", "valid"}

\* The requests: one per route, and one that no route matches.
Requests ==
  {[method |-> RouterStack[k].method, path |-> RouterStack[k].path] :
     k \in {j \in 1..Len(RouterStack) : RouterStack[j].method # "USE"}}
  \cup {[method |-> "GET", path |-> "/no/such/route"]}

\* authenticateToken: the status it answers with, 0 when it calls next().
AuthStatus(header) ==
  IF header \in {"absent", "noToken"} THEN 401
  ELSE IF header = "invalid" THEN 403
  ELSE 0

\* A request arrives at the router.
HttpReceive ==
  /\ hreq.pc = "idle"
  /\ \E r \in Requests, header \in Headers :
       hreq' = [hreq EXCEPT !.pc = "dispatch", !.method = r.method,
                            !.path = r.path, !.header = header, !.layer = 1]
  /\ UNCHANGED <<matcherVars, dbVars, reqVars, exclusionIds, nextExclusionId,
                 exclusionsUnique, xreq, invitations>>

LayerMatches(layer, r) ==
  layer.method = "USE" \/ (layer.method = r.method /\ layer.path = r.path)

\* The router passes a route that does not match the request.
HttpSkipLayer ==
  /\ hreq.pc = "dispatch"
  /\ hreq.layer <= Len(RouterStack)
  /\ ~LayerMatches(RouterStack[hreq.layer], hreq)
  /\ hreq' = [hreq EXCEPT !.layer = @ + 1]
  /\ UNCHANGED <<matcherVars, dbVars, reqVars, exclusionIds, nextExclusionId,
                 exclusionsUnique, xreq, invitations>>

\* authenticateToken runs, as router.use layer or in front of a handler.
HttpAuthenticate ==
  /\ hreq.pc = "dispatch"
  /\ hreq.layer <= Len(RouterStack)
  /\ LET layer == RouterStack[hreq.layer]
         status == AuthStatus(hreq.header)
     IN /\ LayerMatches(layer, hreq)
        /\ layer.method = "USE" \/ (layer.inlineAuth /\ ~hreq.inline)
        /\ hreq' =
             IF status # 0 THEN [hreq EXCEPT !.pc = "done", !.status = status]
             ELSE IF layer.method = "USE"
             THEN [hreq EXCEPT !.userId = 1, !.layer = @ + 1]
             ELSE [hreq EXCEPT !.userId = 1, !.inline = TRUE]
  /\ UNCHANGED <<matcherVars, dbVars, reqVars, exclusionIds, nextExclusionId,
                 exclusionsUnique, xreq, invitations>>

\* The handler of the matching route runs.  The handler of the invite route
\* runs one SELECT on groups; the others read and may write.
HttpRunHandler ==
  /\ hreq.pc = "dispatch"
  /\ hreq.layer <= Len(RouterStack)
  /\ LET layer == RouterStack[hreq.layer]
     IN /\ layer.method # "USE"
        /\ LayerMatches(layer, hreq)
        /\ layer.inlineAuth => hreq.inline
        /\ \E wrote \in BOOLEAN, status \in {200, 404} :
             /\ (layer.method = "GET" /\ layer.path = "/invite/:token") => ~wrote
             /\ hreq' = [hreq EXCEPT !.pc = "done", !.ran = TRUE, !.read = TRUE,
                                     !.wrote = wrote, !.status = status]
  /\ UNCHANGED <<matcherVars, dbVars, reqVars, exclusionIds, nextExclusionId,
                 exclusionsUnique, xreq, invitations>>

\* No layer is left: the router hands the request back, and it is answered
\* with 404.
HttpNotFound ==
  /\ hreq.pc = "dispatch"
  /\ hreq.layer > Len(RouterStack)
  /\ hreq' = [hreq EXCEPT !.pc = "done", !.status = 404]
  /\ UNCHANGED <<matcherVars, dbVars, reqVars, exclusionIds, nextExclusionId,
                 exclusionsUnique, xreq, invitations>>

NextRouter ==
  HttpReceive \/ HttpSkipLayer \/ HttpAuthenticate \/ HttpRunHandler \/ HttpNotFound

InitRouter == NoMatcher /\ NoDatabase

SpecRouter == InitRouter /\ [][NextRouter]_vars

-----------------------------------------------------------------------------
\* Graph notions used to state the properties of the matcher.

GiverIndices == 0..(Len(givers) - 1)

ReceiverVertices == Len(givers)..(Len(givers) + Len(receivers) - 1)

SeqRange(sq) == {sq[k] : k \in 1..Len(sq)}

\* The registered edge graph: giver index, receiver vertex.
EdgeGraph ==
  {e \in GiverIndices \X ReceiverVertices :
     e[2] \in SeqRange(participantConnections[e[1]])}

IsMatching(M) ==
  \A e1 \in M, e2 \in M : e1 # e2 => e1[1] # e2[1] /\ e1[2] # e2[2]

\* The size of a maximum matching of the registered graph, by enumeration.
MaxMatchingSize ==
  LET sizes == {Cardinality(M) : M \in {X \in SUBSET EdgeGraph : IsMatching(X)}}
  IN CHOOSE n \in sizes : \A k \in sizes : k <= n

\* Hall's condition on the giver side.
HallCondition ==
  \A S \in SUBSET GiverIndices :
    Cardinality({e[2] : e \in {x \in EdgeGraph : x[1] \in S}}) >= Cardinality(S)

HasDuplicates(sq) == \E i \in 1..Len(sq), j \in 1..Len(sq) : i # j /\ sq[i] = sq[j]

-----------------------------------------------------------------------------
\* C1: for every registered graph and every shuffle outcome, the map returned
\* by generateSecretSantaPairs has as many entries as a maximum matching of
\* the graph; it has one entry per giver iff Hall's condition holds.
C1_MaximumMatching ==
  mpc = "done" =>
    /\ MapSize(pairs) = MaxMatchingSize
    /\ (MapSize(pairs) = Len(givers)) <=> HallCondition

\* A finished solve on three givers that all have an edge, where only two
\* could be matched.
C1_Witness ==
  /\ mpc = "done"
  /\ Len(givers) = 3
  /\ \A g \in GiverIndices : participantConnections[g] # <<>>
  /\ MapSize(pairs) = 2
  /\ ~HallCondition

\* C4: with the same list of distinct identifiers on both sides, a complete
\* result maps the givers onto pairwise distinct receivers that are exactly
\* the receiver identifiers.
C4_Bijection ==
  (mpc = "done" /\ receivers = givers /\ MapSize(pairs) = Len(givers)) =>
    /\ \A g1 \in DOMAIN pairs, g2 \in DOMAIN pairs :
         g1 # g2 => pairs[g1] # pairs[g2]
    /\ MapValues(pairs) = SeqRange(receivers)

\* A complete result on three participants.
C4_Witness ==
  /\ mpc = "done"
  /\ receivers = givers
  /\ Len(givers) = 3
  /\ MapSize(pairs) = 3

\* C5: once generateSecretSantaPairs has started it ends, and it returns a
\* map with at most one entry per giver.
C5_Totality ==
  /\ (mpc \in {"layer", "augment", "extract"}) ~> (mpc = "done")
  /\ [](mpc = "done" => MapSize(pairs) <= Len(givers))

\* A finished solve on a graph with a duplicate edge and an unmatched giver.
C5_Witness ==
  /\ mpc = "done"
  /\ \E g \in GiverIndices : HasDuplicates(participantConnections[g])
  /\ MapSize(pairs) < Len(givers)
  /\ MapSize(pairs) > 0

\* C10: addSecretSantaPairing throws exactly when an index is out of range,
\* and a throwing call leaves the adjacency lists and the match state as
\* they were.
C10_BoundsEnforcement ==
  /\ [](threw <=> ~argsInRange)
  /\ [][threw' => /\ participantConnections' = participantConnections
                  /\ secretSantaPair' = secretSantaPair]_vars

\* An out-of-range call made after a solve that matched someone.
C10_Witness ==
  /\ threw
  /\ mpc = "done"
  /\ \E v \in DOMAIN secretSantaPair : secretSantaPair[v] # -1

-----------------------------------------------------------------------------
\* Notions used to state the properties of POST /:id/assign.

\* The rows a request's result map stands for.
RowsOf(s) == {<<req[s].groupId, g, req[s].pairs[g]>> : g \in DOMAIN req[s].pairs}

GroupAssignments(groupId) == {a \in assignments : a[1] = groupId}

\* The matcher has returned to request s.
Matched(s) == req[s].pc \in {"delete", "insert", "groupName", "done"} /\
              Len(req[s].members) >= 2

\* C2: the map the matcher returns to the handler never pairs a giver with a
\* receiver that an exclusion row of the group forbids to it, and neither do
\* the rows stored by a successful request.
C2_ExclusionRespect ==
  \A s \in slots :
    /\ \A g \in DOMAIN req[s].pairs :
         <<req[s].groupId, g, req[s].pairs[g]>> \notin exclusions
    /\ req[s].response.status = 200 =>
         GroupAssignments(req[s].groupId) \cap exclusions = {}

\* A successful request for three participants, one of them excluded for
\* another.
C2_Witness ==
  \E s \in slots :
    /\ req[s].response.status = 200
    /\ Len(req[s].members) = 3
    /\ \E e \in exclusions :
         /\ e[1] = req[s].groupId
         /\ e[2] \in SeqRange(req[s].members)
         /\ e[3] \in SeqRange(req[s].members)
    /\ GroupAssignments(req[s].groupId) = RowsOf(s)

\* C3: the map the matcher returns to the handler, complete or not, never
\* pairs a participant with itself.
C3_NoSelfPairing ==
  \A s \in slots : \A g \in DOMAIN req[s].pairs : req[s].pairs[g] # g

\* An incomplete, non-empty result.
C3_Witness ==
  \E s \in slots :
    /\ Matched(s)
    /\ MapSize(req[s].pairs) > 0
    /\ MapSize(req[s].pairs) < Len(req[s].members)

\* C6: when the matcher returns fewer entries than there are members, the
\* request ends with an error, the stored assignments are those stored
\* before, and no notification is started.
C6_IncompleteNotApplied ==
  \A s \in slots :
    (Matched(s) /\ MapSize(req[s].pairs) < Len(req[s].members)) =>
      /\ req[s].pc = "done"
      /\ req[s].response.status = 500
      /\ assignments = prior
      /\ notification[s] = "none"

\* An incomplete result for a group that had assignments.
C6_Witness ==
  \E s \in slots :
    /\ Matched(s)
    /\ MapSize(req[s].pairs) < Len(req[s].members)
    /\ prior # {}
    /\ req[s].response.status = 500

\* C7: in every state the stored assignments of the group are the earlier
\* set or the complete new mapping of the request, with at most one row per
\* giver.
C7_AtomicReplacement ==
  /\ \/ assignments = prior
     \/ \E s \in slots :
          /\ Matched(s)
          /\ MapSize(req[s].pairs) = Len(req[s].members)
          /\ assignments = RowsOf(s)
  /\ \A a \in assignments, b \in assignments :
       (a[1] = b[1] /\ a[2] = b[2]) => a = b

\* C8: once two requests that both computed a complete mapping have
\* finished, the stored assignments are the mapping of one of them.
C8_Serialized ==
  (\A s \in slots :
     /\ req[s].pc = "done"
     /\ Matched(s)
     /\ MapSize(req[s].pairs) = Len(req[s].members)) =>
    \E s \in slots : assignments = RowsOf(s)

\* C9: the notification is started only once every row of the new mapping
\* is stored and the request is answered with success, and no step of the
\* notification changes the stored assignments or the request.
C9_NotificationBestEffort ==
  /\ [](\A s \in slots :
          notification[s] # "none" =>
            /\ req[s].inserted = Len(req[s].members)
            /\ MapSize(req[s].pairs) = Len(req[s].members)
            /\ assignments = RowsOf(s)
            /\ req[s].pc = "done"
            /\ req[s].response.status = 200)
  /\ [][\A s \in slots :
          (notification[s] = "pending" /\ notification'[s] # "pending") =>
            assignments' = assignments /\ req' = req]_vars

\* A failed notification after a request that replaced earlier assignments.
C9_Witness ==
  \E s \in slots :
    /\ notification[s] = "failed"
    /\ req[s].response.status = 200
    /\ prior # {}
    /\ assignments # prior

\* C11: an in-range addSecretSantaPairing(g, r) appends G + r at the end of
\* giver g's list, whatever the list holds, and changes no other list, nor
\* the match array, nor the distance array.
C11_AppendOnly ==
  [][mpc' \in {"build", "stale"} =>
       LET g == lastCall'[1]
           r == lastCall'[2]
       IN /\ participantConnections'[g] =
               Append(participantConnections[g], Len(givers) + r)
          /\ DOMAIN participantConnections' = DOMAIN participantConnections
          /\ \A p \in DOMAIN participantConnections :
               p # g => participantConnections'[p] = participantConnections[p]
          /\ secretSantaPair' = secretSantaPair
          /\ searchDistance' = searchDistance
          /\ ~threw']_vars

\* After a solve that matched a giver, the self-pair (g, g) is registered a
\* second time.
C11_Witness ==
  /\ mpc = "stale"
  /\ receivers = givers
  /\ lastCall[1] = lastCall[2]
  /\ lastCall[1] \in GiverIndices
  /\ HasDuplicates(participantConnections[lastCall[1]])
  /\ \E v \in DOMAIN secretSantaPair : secretSantaPair[v] # -1
  /\ \E v \in DOMAIN searchDistance : searchDistance[v] # Infinity

-----------------------------------------------------------------------------
\* The maps generateSecretSantaPairs can return to request s, over the
\* outcomes of the shuffle.
PossibleResults(s) ==
  generateSecretSantaPairs(
    BuildMatcher(req[s].members, ExclusionsQuery(req[s].groupId)).matcher)

\* The perfect matchings of the graph the handler registers for request s:
\* the one-to-one maps on the members without self-pair or excluded pair.
ValidMappings(s) ==
  LET P == SeqRange(req[s].members)
      rows == ExclusionsQuery(req[s].groupId)
  IN {f \in [P -> P] :
        /\ \A g \in P : f[g] # g /\ <<g, f[g]>> \notin rows
        /\ \A g \in P, h \in P : g # h => f[g] # f[h]}

\* C12: for the graph of a request, every map the solve can return is
\* one-to-one, without self-pair and without excluded pair, and onto the
\* members when complete; every perfect matching of the graph is returned for
\* some shuffle outcome, so that several perfect matchings give several
\* possible results.
C12_ShuffleIndependence ==
  \A s \in slots :
    req[s].pc = "match" =>
      LET results == PossibleResults(s)
          rows == ExclusionsQuery(req[s].groupId)
      IN /\ \A m \in results :
              /\ \A g \in DOMAIN m : m[g] # g /\ <<g, m[g]>> \notin rows
              /\ \A g \in DOMAIN m, h \in DOMAIN m : g # h => m[g] # m[h]
              /\ MapSize(m) = Len(req[s].members) =>
                   MapValues(m) = SeqRange(req[s].members)
         /\ ValidMappings(s) \subseteq results
         /\ Cardinality(ValidMappings(s)) > 1 => Cardinality(results) > 1

\* A request whose graph has two perfect matchings, and that drew one.
C12_Witness ==
  \E s \in slots :
    /\ req[s].pc = "delete"
    /\ Cardinality(ValidMappings(s)) > 1
    /\ req[s].pairs \in ValidMappings(s)
    /\ Len(req[s].members) = 3

\* C13: without exclusion rows, the map returned to a request for n >= 2
\* members is a complete derangement of the members: the swap for n = 2, a
\* 3-cycle for n = 3.
C13_Derangement ==
  \A s \in slots :
    (Matched(s) /\ ExclusionsQuery(req[s].groupId) = {}) =>
      LET P == SeqRange(req[s].members)
          m == req[s].pairs
      IN /\ DOMAIN m = P
         /\ MapValues(m) = P
         /\ \A g \in P : m[g] # g
         /\ Len(req[s].members) = 2 =>
              m[req[s].members[1]] = req[s].members[2] /\
              m[req[s].members[2]] = req[s].members[1]
         /\ Len(req[s].members) = 3 =>
              \A g \in P : m[m[g]] # g /\ m[m[m[g]]] = g

\* Three members, no exclusion row, and the cycle against the id order.
C13_Witness ==
  \E s \in slots :
    /\ Matched(s)
    /\ exclusions = {}
    /\ req[s].members = <<1, 2, 3>>
    /\ req[s].pairs = (1 :> 3 @@ 2 :> 1 @@ 3 :> 2)

\* C14: when the exclusion rows cover every ordered pair of distinct
\* members, the matcher returns the empty map, the request ends with the
\* incomplete-matching error, and nothing is stored or notified.
C14_NoOptionLeft ==
  \A s \in slots :
    (/\ Matched(s)
     /\ \A g \in SeqRange(req[s].members), h \in SeqRange(req[s].members) :
          g # h => <<g, h>> \in ExclusionsQuery(req[s].groupId)) =>
      /\ req[s].pairs = EmptyMap
      /\ req[s].pc = "done"
      /\ req[s].response =
           [status |-> 500, error |-> "Failed to create valid assignments"]
      /\ req[s].inserted = 0
      /\ assignments = prior
      /\ notification[s] = "none"

\* Two members excluded from each other, with assignments stored before.
C14_Witness ==
  \E s \in slots :
    /\ Matched(s)
    /\ Len(req[s].members) = 2
    /\ <<req[s].members[1], req[s].members[2]>> \in ExclusionsQuery(req[s].groupId)
    /\ <<req[s].members[2], req[s].members[1]>> \in ExclusionsQuery(req[s].groupId)
    /\ req[s].pairs = EmptyMap
    /\ prior # {}

\* The adjacency lists the handler registers for participants 1..n with the
\* exclusion rows (A, B) and (B, A).
PairExclusionGraph(n, A, B) ==
  BuildMatcher([i \in 1..n |-> i], {<<A, B>>, <<B, A>>}).matcher.participantConnections

\* Hall's condition on the giver side of such adjacency lists.
HallOn(conn, n) ==
  \A S \in SUBSET (0..(n - 1)) :
    Cardinality(UNION {SeqRange(conn[g]) : g \in S}) >= Cardinality(S)

\* C15: for a group of n >= 4 participants whose only exclusion is one pair
\* stored in both directions, the map returned to the request has one entry
\* per participant, whatever the shuffle; and for every size up to MaxGroup
\* the registered graph satisfies Hall's condition, so that a maximum
\* matching of it is complete.
C15_SinglePairComplete ==
  \A s \in slots :
    /\ Matched(s) =>
         /\ DOMAIN req[s].pairs = SeqRange(req[s].members)
         /\ req[s].response.status # 500
    /\ req[s].pc = "members" =>
         \A n \in 4..MaxGroup :
           \A A \in 1..n, B \in 1..n :
             A < B => HallOn(PairExclusionGraph(n, A, B), n)

\* A successful request of the owner, who is one of the excluded pair.
C15_Witness ==
  \E s \in slots :
    /\ Len(req[s].members) >= 4
    /\ req[s].response.status = 200
    /\ \E e \in exclusions : e[2] = req[s].userId
    /\ assignments = RowsOf(s)

\* C16: once all exclusion requests have finished, the stored exclusions
\* hold (A, B) exactly when they hold (B, A).
C16_SymmetricExclusions ==
  (\A s \in DOMAIN xreq : xreq[s].pc = "done") =>
    \A e \in exclusions : <<e[1], e[3], e[2]>> \in exclusions

\* C17: no stored exclusion row has the owner of its group as excluded user.
C17_OwnerNeverExcluded ==
  \A e \in exclusions : e[1] \in DOMAIN groups => e[3] # groups[e[1]]

\* The giver indices that have a partner.
MatchedGivers == {i \in GiverIndices : secretSantaPair[i] # -1}

\* C18: the returned map has the entry givers[i] -> receivers[partner(i) - G]
\* for exactly the matched giver indices i, and as many entries as there
\* are matched givers.
C18_ResultExtraction ==
  mpc = "done" =>
    /\ DOMAIN pairs = {givers[i + 1] : i \in MatchedGivers}
    /\ \A i \in MatchedGivers :
         pairs[givers[i + 1]] = receivers[secretSantaPair[i] - Len(givers) + 1]
    /\ MapSize(pairs) = Cardinality(MatchedGivers)

\* A solve that left one giver of three without partner, with receivers
\* other than the givers.
C18_Witness ==
  /\ mpc = "done"
  /\ Len(givers) = 3
  /\ receivers # givers
  /\ Cardinality(MatchedGivers) = 2
  /\ secretSantaPair[1] = -1

\* C20: in every state between the steps of a solve, and after it, the match
\* array is symmetric, no two vertices have the same partner, a giver's
\* partner is a receiver vertex, and it is in the giver's adjacency list.
C20_MatchState ==
  \A v \in DOMAIN secretSantaPair :
    secretSantaPair[v] # -1 =>
      /\ secretSantaPair[v] \in DOMAIN secretSantaPair
      /\ secretSantaPair[secretSantaPair[v]] = v
      /\ \A u \in DOMAIN secretSantaPair :
           u # v => secretSantaPair[u] # secretSantaPair[v]
      /\ v \in GiverIndices =>
           /\ secretSantaPair[v] \in ReceiverVertices
           /\ secretSantaPair[v] \in SeqRange(participantConnections[v])

\* Between two phases, after an augmentation through a matched giver
\* gave both givers a partner.
C20_Witness ==
  /\ mpc = "layer"
  /\ searchDistance[ArrayLen(searchDistance) - 1] = 2
  /\ Cardinality(MatchedGivers) = 2
  /\ Len(givers) = 2


\* The request carries no token that verifies.
Unauthenticated == hreq.pc # "idle" /\ hreq.header # "valid"

\* The request is for the route registered before router.use.
InviteRequest == hreq.method = "GET" /\ hreq.path = "/invite/:token"

-----------------------------------------------------------------------------
\* Augmenting paths, stated on the match array and the adjacency lists.

\* The augmenting paths of k givers with respect to a matching, each given by
\* its givers in order: the first is unmatched, each next one is the partner
\* of a receiver adjacent to the one before, and the last is adjacent to an
\* unmatched receiver.
AugmentingPathsOfLen(pair, k) ==
  {p \in [1..k -> GiverIndices] :
     /\ \A i \in DOMAIN p, j \in DOMAIN p : i # j => p[i] # p[j]
     /\ pair[p[1]] = -1
     /\ \A i \in 1..(Len(p) - 1) :
          /\ pair[p[i + 1]] # -1
          /\ pair[p[i + 1]] \in SeqRange(participantConnections[p[i]])
     /\ \E r \in SeqRange(participantConnections[p[Len(p)]]) :
          pair[r] = -1}

AugmentingPathsOf(pair) ==
  UNION {AugmentingPathsOfLen(pair, k) : k \in 1..Len(givers)}

AugmentingPaths == AugmentingPathsOf(secretSantaPair)

\* The sentinel's entry of the distance array.
SentinelDistance == searchDistance[ArrayLen(searchDistance) - 1]

\* The solve is right after a successful initializeSearchLayer call.
PhaseStart == mpc = "augment" /\ participant = 0

\* C21: right after an initializeSearchLayer call, it returned true iff an
\* augmenting path exists for the current matching; and when it returned
\* false the matching has the size of a maximum matching.
C21_LayeringIffAugmentingPath ==
  /\ PhaseStart => LayerFound(searchDistance) /\ AugmentingPaths # {}
  /\ mpc = "extract" =>
       /\ ~LayerFound(searchDistance)
       /\ AugmentingPaths = {}
       /\ Cardinality(MatchedGivers) = MaxMatchingSize

\* C21 witness: a second phase is started, whose only augmenting paths lead
\* through the matched giver.
C21_Witness ==
  /\ PhaseStart
  /\ Cardinality(MatchedGivers) = 1
  /\ SentinelDistance = 2
  /\ \A p \in AugmentingPaths : Len(p) = 2

\* C22: every attemptAssignment call that changes the match array changes it
\* along one path: the path starts at the giver of the call, which is
\* unmatched and in layer 0, has one giver in each layer 0, 1, ..., L-1 (L the
\* sentinel's distance), each giver taking the former partner of the giver in
\* the next layer, and the last giver takes a receiver that was unmatched;
\* the path is an augmenting path for the matching at the start of the phase,
\* and no augmenting path for that matching has fewer than L givers.
C22_ShortestPaths ==
  [][LET D == {g \in GiverIndices : secretSantaPair'[g] # secretSantaPair[g]}
         L == SentinelDistance
     IN (mpc = "augment" /\ D # {}) =>
          /\ participant \in D
          /\ secretSantaPair[participant] = -1
          /\ phasePair[participant] = -1
          /\ Cardinality(D) = L
          /\ {searchDistance[g] : g \in D} = 0..(L - 1)
          /\ \A g \in D :
               /\ secretSantaPair'[g] \in SeqRange(participantConnections[g])
               /\ searchDistance[g] # 0 => phasePair[g] = secretSantaPair[g]
               /\ \A h \in D : searchDistance[h] = searchDistance[g] + 1 =>
                    secretSantaPair'[g] = secretSantaPair[h]
               /\ searchDistance[g] = L - 1 =>
                    /\ secretSantaPair[secretSantaPair'[g]] = -1
                    /\ phasePair[secretSantaPair'[g]] = -1
          /\ \A k \in 1..(L - 1) : AugmentingPathsOfLen(phasePair, k) = {}]_vars

\* C22 witness: a phase with sentinel distance 3 has applied a path from the
\* unmatched giver through the two matched ones.
C22_Witness ==
  /\ mpc \in {"augment", "layer"}
  /\ SentinelDistance = 3
  /\ \E g \in GiverIndices : phasePair[g] = -1 /\ secretSantaPair[g] # -1
  /\ Cardinality({g \in GiverIndices :
                    phasePair[g] # -1 /\ secretSantaPair[g] # phasePair[g]}) = 2

\* The givers matched at the last initializeSearchLayer call.
MatchedAtPhaseStart == {i \in GiverIndices : phasePair[i] # -1}

\* C23: when the for loop of a phase has ended, more givers are matched than
\* at the phase's initializeSearchLayer call; so after k such calls of one
\* solve at least k - 1 givers are matched, and right after each call the
\* calls of the solve are at most the maximum matching size plus one, hence
\* at most G + 1.
C23_PhaseProgress ==
  /\ (mpc = "layer" /\ phases > 0) =>
       /\ Cardinality(MatchedGivers) > Cardinality(MatchedAtPhaseStart)
       /\ Cardinality(MatchedGivers) >= phases
  /\ phases > 0 => Cardinality(MatchedGivers) >= phases - 1
  /\ (PhaseStart \/ mpc = "extract") => phases <= MaxMatchingSize + 1
  /\ phases <= Len(givers) + 1

\* C23 witness: a solve of three calls, the second of which found the last
\* giver a partner.
C23_Witness ==
  /\ mpc = "done"
  /\ phases = 3
  /\ Cardinality(MatchedGivers) = 3
  /\ Cardinality(MatchedAtPhaseStart) = 3

\* C24: when the for loop of a phase with sentinel distance L has ended, no
\* augmenting path of L or fewer givers is left; and the sentinel distance
\* found by the next initializeSearchLayer call of the solve, if it finds
\* one, is greater than L.
C24_PhaseLengthsIncrease ==
  /\ []((mpc = "layer" /\ phases > 0) =>
          \A k \in 1..SentinelDistance :
            AugmentingPathsOfLen(secretSantaPair, k) = {})
  /\ [][(mpc = "layer" /\ phases > 0 /\ LayerFound(searchDistance')) =>
          searchDistance'[ArrayLen(searchDistance') - 1] > SentinelDistance]_vars

\* C24 witness: the second phase of a solve starts with sentinel distance 3,
\* after a first phase with sentinel distance 1 that matched two givers.
C24_Witness ==
  /\ PhaseStart
  /\ phases = 2
  /\ SentinelDistance = 3
  /\ Cardinality(MatchedGivers) = 2

-----------------------------------------------------------------------------
\* The number of occurrences of x in a list.
Count(sq, x) == Cardinality({k \in 1..Len(sq) : sq[k] = x})

\* The sequences of draws the loop can make on a list of n elements: one j in
\* 0..i for each i from n - 1 down to 1.
DrawSequences(n) == {d \in [1..(n - 1) -> 0..(n - 1)] : \A i \in 1..(n - 1) : d[i] <= i}

\* The orderings of a list of distinct elements.
Orderings(sq) ==
  {o \in [1..Len(sq) -> SeqRange(sq)] : \A x \in SeqRange(sq) : Count(o, x) = 1}

\* C25: the step that enters generateSecretSantaPairs is the only step of a
\* solve that changes the adjacency lists, it comes before the first
\* initializeSearchLayer call, and it leaves in every list the same elements
\* with the same multiplicities; and on a list of n distinct elements the
\* sequences of draws and the orderings correspond one to one.
C25_ShuffleOncePermutes ==
  /\ [][calls' # calls =>
          /\ calls' = calls + 1
          /\ mpc = "build" /\ mpc' = "layer" /\ phases' = 0
          /\ DOMAIN participantConnections' = DOMAIN participantConnections
          /\ \A p \in DOMAIN participantConnections :
               /\ Len(participantConnections'[p]) = Len(participantConnections[p])
               /\ \A x \in SeqRange(participantConnections[p]) :
                    Count(participantConnections'[p], x) =
                      Count(participantConnections[p], x)
          /\ secretSantaPair' = secretSantaPair]_vars
  /\ [][(mpc \in {"layer", "augment", "extract"}) =>
          (participantConnections' = participantConnections /\ calls' = calls)]_vars
  /\ [](mpc \in {"layer", "augment", "extract", "done"} => calls = 1)
  /\ [](mpc = "build" =>
          \A p \in GiverIndices :
            LET edges == participantConnections[p]
                n == Len(edges)
            IN ~HasDuplicates(edges) =>
                 /\ \A d \in DrawSequences(n), e \in DrawSequences(n) :
                      d # e => FisherYatesWith(edges, n - 1, d) #
                               FisherYatesWith(edges, n - 1, e)
                 /\ {FisherYatesWith(edges, n - 1, d) : d \in DrawSequences(n)}
                      = Orderings(edges)
                 /\ FisherYates(edges, n - 1) = Orderings(edges))

\* C25 witness: a solve has been entered with a list of three distinct
\* receivers, which the shuffle left in decreasing order.
C25_Witness ==
  /\ mpc = "layer"
  /\ phases = 0
  /\ calls = 1
  /\ \E p \in GiverIndices :
       /\ Len(participantConnections[p]) = 3
       /\ participantConnections[p][1] > participantConnections[p][2]
       /\ participantConnections[p][2] > participantConnections[p][3]

\* Vertex v has a partner in the match array, and is that partner's partner.
IsMatched(pair, v) == pair[v] # -1 /\ pair[v] \in DOMAIN pair /\ pair[pair[v]] = v

\* C26: no step of a solve, neither an attemptAssignment call nor the start
\* of a phase, leaves a vertex without partner that had one before, giver or
\* receiver; so the set of matched givers only grows.
C26_MatchingMonotone ==
  [][/\ \A v \in DOMAIN secretSantaPair :
          IsMatched(secretSantaPair, v) => IsMatched(secretSantaPair', v)
     /\ {i \in GiverIndices : secretSantaPair[i] # -1} \subseteq
          {i \in GiverIndices : secretSantaPair'[i] # -1}]_vars

\* C26 witness: at the end of the second phase every giver is matched, and a
\* giver matched in the first phase has another partner than before.
C26_Witness ==
  /\ mpc = "layer"
  /\ phases = 2
  /\ \A g \in GiverIndices : IsMatched(secretSantaPair, g)
  /\ \E g \in GiverIndices :
       IsMatched(phasePair, g) /\ secretSantaPair[g] # phasePair[g]

\* C30: a call attemptAssignment(u) of the for loop that returns false leaves
\* the match array as it was; and no later step of the phase gives a partner
\* to a giver that the loop has passed and left unmatched.
C30_FailedAttemptFrame ==
  [][mpc = "augment" =>
       /\ (/\ secretSantaPair[participant] = -1
           /\ ~attemptAssignment(participantConnections, secretSantaPair,
                                 searchDistance, participant).ok) =>
            secretSantaPair' = secretSantaPair
       /\ \A u \in 0..(participant - 1) :
            secretSantaPair[u] = -1 => secretSantaPair'[u] = -1]_vars

\* C30 witness: the second phase has ended; a giver with an edge that was
\* unmatched at its start is still unmatched, and another one got a partner.
C30_Witness ==
  /\ mpc = "layer"
  /\ phases = 2
  /\ \E u \in GiverIndices :
       /\ phasePair[u] = -1
       /\ secretSantaPair[u] = -1
       /\ participantConnections[u] # <<>>
  /\ \E g \in GiverIndices : phasePair[g] = -1 /\ secretSantaPair[g] # -1

\* C27: in a call of generateSecretSantaPairs that is not the first on the
\* instance, with no edge registered since the call before, no step changes
\* the match array, the first initializeSearchLayer call returns false, and
\* the map returned is the map the call before returned, whatever the
\* shuffle of the call drew.
C27_SecondCallIdempotent ==
  [][(calls >= 2) =>
       /\ secretSantaPair' = secretSantaPair
       /\ mpc = "layer" => (mpc' = "extract" /\ phases = 0)
       /\ mpc = "extract" => pairs' = pairs]_vars

\* C27 witness: a second call has returned two pairs, with the lists in an
\* order in which some giver's partner is not the first of its list.
C27_Witness ==
  /\ mpc = "done"
  /\ calls = 2
  /\ MapSize(pairs) = 2
  /\ \E g \in GiverIndices :
       /\ secretSantaPair[g] # -1
       /\ participantConnections[g][1] # secretSantaPair[g]

-----------------------------------------------------------------------------
\* The participants of a group: its owner and the users with a member row.
Participants(groupId) ==
  {groups[groupId]} \cup {x[2] : x \in {m \in group_members : m[1] = groupId}}

\* C28: between requests, a group that has stored assignments has them as a
\* complete exchange among its current participants: the giver and the
\* receiver of every row are participants, and every participant is the giver
\* of exactly one row.
C28_AssignmentsMatchParticipants ==
  NoAssignInFlight =>
    \A g \in DOMAIN groups :
      GroupAssignments(g) # {} =>
        /\ \A a \in GroupAssignments(g) :
             a[2] \in Participants(g) /\ a[3] \in Participants(g)
        /\ \A u \in Participants(g) :
             Cardinality({a \in GroupAssignments(g) : a[2] = u}) = 1

\* C29: the owner of a group has no row in the group's group_members.
C29_OwnerHasNoMemberRow ==
  \A g \in DOMAIN groups : <<g, groups[g]>> \notin group_members

=========================================================================
